---- MODULE Spec2Model ----
(***************************************************************************)
(* dao-couchdb: the DAO class of src/dao.js over a partitioned document    *)
(* store.  JavaScript values are modelled as tagged records, documents as  *)
(* functions from own property names to values, strings as sequences of    *)
(* one-character strings (so that `${type}:${id}` and the /DocumentID       *)
(* pattern are computed, not assumed).                                     *)
(***************************************************************************)
EXTENDS Integers, Sequences, FiniteSets, TLC

VARIABLES
  type,         \* this.type of the accessor
  store,        \* the database behind this.db: _id -> entry
  pc,           \* the caller: "idle" or "settled" (a promise has settled)
  call,         \* the call that settled: operation and arguments
  ret,          \* the settled promise: status and value
  err,          \* the rejection reason when ret.status = "rejected"
  storeCalls,   \* the calls the operation issued on this.db, in order
  storeErr,     \* the error the store answered with (NoErr if none)
  storeBefore,  \* the store when the call was made
  dao,          \* TRUE once an accessor has been constructed
  now,          \* Date.now(): the wall clock, in milliseconds
  held,         \* the document the caller holds and hands to DAO.touch
  touched       \* TRUE once DAO.touch has returned for the held document

vars == <<type, store, pc, call, ret, err, storeCalls, storeErr, storeBefore,
          dao, now, held, touched>>

----------------------------------------------------------------------------
(* Bounds *)

\* Highest revision generation the store hands out for one document.
MaxRev == 2

\* The wall clock runs from 0 to MaxClock milliseconds, in steps of TickMs.
MaxClock == 2000
TickMs == 500

----------------------------------------------------------------------------
(* JavaScript values *)

EmptyDoc == [k \in {} |-> 0]

Undefined == [t |-> "undefined", s |-> <<>>, n |-> 0, o |-> EmptyDoc]
Null      == [t |-> "null", s |-> <<>>, n |-> 0, o |-> EmptyDoc]
Str(s)    == [t |-> "string", s |-> s, n |-> 0, o |-> EmptyDoc]
Num(n)    == [t |-> "number", s |-> <<>>, n |-> n, o |-> EmptyDoc]
\* the non-integer number n + 0.5
Frac(n)   == [t |-> "number", s |-> <<"5">>, n |-> n, o |-> EmptyDoc]
Bool(b)   == [t |-> "boolean", s |-> <<>>, n |-> IF b THEN 1 ELSE 0, o |-> EmptyDoc]
Obj(d)    == [t |-> "object", s |-> <<>>, n |-> 0, o |-> d]
\* an array value; its elements are kept beside it (ret.list, call.key)
Arr       == [t |-> "array", s |-> <<>>, n |-> 0, o |-> EmptyDoc]
\* a function value (a method of the store client)
Fn        == [t |-> "function", s |-> <<>>, n |-> 0, o |-> EmptyDoc]

\* typeof v
TypeOf(v) ==
  CASE v.t = "undefined" -> "undefined"
    [] v.t = "string"    -> "string"
    [] v.t = "number"    -> "number"
    [] v.t = "boolean"   -> "boolean"
    [] v.t = "function"  -> "function"
    [] OTHER             -> "object"      \* objects, arrays and null

\* ToBoolean(v): what `assert(v)`, `!v` and `v ? a : b` test
Truthy(v) ==
  CASE v.t = "undefined" -> FALSE
    [] v.t = "null"      -> FALSE
    [] v.t = "string"    -> v.s # <<>>
    [] v.t = "number"    -> ~(v.n = 0 /\ v.s = <<>>)
    [] v.t = "boolean"   -> v.n = 1
    [] OTHER             -> TRUE

\* doc.k for an object doc: undefined when k is no own property
Get(d, k) == IF k \in DOMAIN d THEN d[k] ELSE Undefined

\* JSON.stringify of an object: properties holding undefined are dropped
Serialize(d) == [k \in {x \in DOMAIN d : d[x].t # "undefined"} |-> d[k]]

\* `${type}:${id}` for a string id
Qualify(ty, id) == ty \o <<":">> \o id

----------------------------------------------------------------------------
(* Errors *)

NoErr == [name |-> "", message |-> "", statusCode |-> 0]
\* assert(cond, message) failing
AssertionError(m) == [name |-> "AssertionError", message |-> m, statusCode |-> 0]
\* reading a property of null
TypeError == [name |-> "TypeError", message |-> "Cannot read properties of null", statusCode |-> 0]
\* an error of the store client, with its HTTP status
StoreError(code) == [name |-> "Error", message |-> "store", statusCode |-> code]

\* the error kind the specification gives to each assertion message
Kind(e) ==
  CASE e.name = "AssertionError" /\ e.message \in
         {"bad document", "bad document id", "invalid view", "invalid options", "invalid key",
          "bad user name", "invalid user name",
          "bad dao type name", "bad db type", "bad db instance"}
                                                                -> "InvalidArgument"
    [] e.name = "AssertionError" /\ e.message = "invalid document"            -> "InvalidDocument"
    [] e.name = "AssertionError" /\ e.message = "document may already exist"  -> "AlreadyExists"
    [] e.name = "AssertionError" /\ e.message = "document id mismatch"        -> "IdentityMismatch"
    [] e.name = "AssertionError" /\ e.message = "document must already exist" -> "PreconditionFailed"
    [] e.name = "AssertionError" /\ e.message = "key is not unique"           -> "NotUnique"
    [] e.name = "Error"     -> "StoreError"
    [] e.name = "TypeError" -> "TypeError"
    [] OTHER                -> "None"

----------------------------------------------------------------------------
(* Schema validation: the /Document schema and the two schemas it refers to *)

\* new RegExp(`^${type}:`).test(s), for a type made of literal characters
\* and the metacharacter "." (any character); the pattern is not anchored at
\* its end.
PatternTest(ty, s) ==
  LET pat == ty \o <<":">> IN
    /\ Len(s) >= Len(pat)
    /\ \A i \in 1..Len(pat) : pat[i] = "." \/ pat[i] = s[i]

\* /DocumentID: {type: 'string', pattern: `^${type}:`}; jsonschema ignores
\* an undefined instance, and `pattern` ignores a non-string.
DocumentID(ty, x) ==
  IF x.t = "undefined" THEN {}
  ELSE IF x.t # "string" THEN {"type"}
  ELSE IF ~PatternTest(ty, x.s) THEN {"pattern"}
  ELSE {}

\* /NonEmptyString: {type: 'string', minLength: 1}
NonEmptyString(x) ==
  IF x.t = "undefined" THEN {}
  ELSE IF x.t # "string" THEN {"type"}
  ELSE IF Len(x.s) < 1 THEN {"minLength"}
  ELSE {}

\* {type: 'integer'}
IntegerType(x) ==
  IF x.t = "undefined" THEN {}
  ELSE IF ~(x.t = "number" /\ x.s = <<>>) THEN {"type"}
  ELSE {}

Required == {"_id", "c_by", "c_at", "m_by", "m_at"}

\* this.schema applied to an instance: the set of <<property, rule>> errors
schema(ty, v) ==
  IF v.t # "object"
  THEN {<<"instance", "type">>}          \* null and arrays are no 'object'
  ELSE LET d == v.o IN
         {<<"_id", r>>  : r \in DocumentID(ty, Get(d, "_id"))}
    \cup {<<"_rev", r>> : r \in NonEmptyString(Get(d, "_rev"))}
    \cup {<<"c_by", r>> : r \in NonEmptyString(Get(d, "c_by"))}
    \cup {<<"c_at", r>> : r \in IntegerType(Get(d, "c_at"))}
    \cup {<<"m_by", r>> : r \in NonEmptyString(Get(d, "m_by"))}
    \cup {<<"m_at", r>> : r \in IntegerType(Get(d, "m_at"))}
    \cup {<<f, "required">> : f \in {g \in Required : Get(d, g).t = "undefined"}}

\* validate(doc): the assertion it may fail with, else the validator result
validate(ty, v) ==
  IF TypeOf(v) # "object"
  THEN [threw |-> AssertionError("bad document"), valid |-> FALSE, errors |-> {}]
  ELSE [threw |-> NoErr, valid |-> schema(ty, v) = {}, errors |-> schema(ty, v)]

----------------------------------------------------------------------------
(* The constructor and the static DAO.touch *)

\* Math.floor(Date.now() / 1000) for the clock reading ms
EpochSeconds(ms) == ms \div 1000

\* touch that stamps the creator on every call
touch_AlwaysStampsCreator(doc, userName, t1, t2) ==
  IF TypeOf(doc) # "object" THEN [err |-> AssertionError("bad document"), doc |-> doc]
  ELSE IF TypeOf(userName) # "string"
  THEN [err |-> AssertionError("bad user name"), doc |-> doc]
  ELSE IF ~Truthy(userName) THEN [err |-> AssertionError("invalid user name"), doc |-> doc]
  ELSE IF doc.t = "null" THEN [err |-> TypeError, doc |-> doc]
  ELSE LET created == ("c_by" :> userName) @@ ("c_at" :> Num(EpochSeconds(t1))) @@ doc.o IN
    [err |-> NoErr,
     doc |-> [doc EXCEPT !.o = ("m_by" :> userName) @@ ("m_at" :> Num(EpochSeconds(t2)))
                               @@ created]]

\* touch that stamps the creator but not the creation time
touch_NoCreatedAt(doc, userName, t1, t2) ==
  IF TypeOf(doc) # "object" THEN [err |-> AssertionError("bad document"), doc |-> doc]
  ELSE IF TypeOf(userName) # "string"
  THEN [err |-> AssertionError("bad user name"), doc |-> doc]
  ELSE IF ~Truthy(userName) THEN [err |-> AssertionError("invalid user name"), doc |-> doc]
  ELSE IF doc.t = "null" THEN [err |-> TypeError, doc |-> doc]
  ELSE LET created == IF TypeOf(Get(doc.o, "c_by")) = "undefined"
                      THEN ("c_by" :> userName) @@ doc.o
                      ELSE doc.o IN
    [err |-> NoErr,
     doc |-> [doc EXCEPT !.o = ("m_by" :> userName) @@ ("m_at" :> Num(EpochSeconds(t2)))
                               @@ created]]

\* static touch(doc, userName), where Date.now() reads t1 at the creation
\* stamp and t2 at the modification stamp; the document is changed in place
\* and returned.
touch(doc, userName, t1, t2) ==
  IF TypeOf(doc) # "object" THEN [err |-> AssertionError("bad document"), doc |-> doc]
  ELSE IF TypeOf(userName) # "string"
  THEN [err |-> AssertionError("bad user name"), doc |-> doc]
  ELSE IF ~Truthy(userName) THEN [err |-> AssertionError("invalid user name"), doc |-> doc]
  ELSE IF doc.t = "null" THEN [err |-> TypeError, doc |-> doc]   \* null.c_by
  ELSE LET created == IF TypeOf(Get(doc.o, "c_by")) = "undefined"
                      THEN ("c_by" :> userName) @@ ("c_at" :> Num(EpochSeconds(t1)))
                           @@ doc.o
                      ELSE doc.o IN
    [err |-> NoErr,
     doc |-> [doc EXCEPT !.o = ("m_by" :> userName) @@ ("m_at" :> Num(EpochSeconds(t2)))
                               @@ created]]

\* constructor(type, db): the assertion (or TypeError) it fails with, else
\* this.type
constructor(typeArg, db) ==
  IF TypeOf(typeArg) # "string"
  THEN [err |-> AssertionError("bad dao type name"), type |-> <<>>]
  ELSE IF TypeOf(db) # "object"
  THEN [err |-> AssertionError("bad db type"), type |-> <<>>]
  ELSE IF db.t = "null" THEN [err |-> TypeError, type |-> <<>>]      \* null.replicate
  ELSE IF TypeOf(Get(db.o, "replicate")) # "function"
  THEN [err |-> AssertionError("bad db instance"), type |-> <<>>]
  ELSE [err |-> NoErr, type |-> typeArg.s]

----------------------------------------------------------------------------
(* The document store behind this.db (CouchDB through nano).  An entry is   *)
(* absent, live or deleted (a tombstone); its revision token is derived     *)
(* from a generation the store advances on every accepted write.            *)

Digits == <<"1", "2", "3", "4", "5", "6", "7", "8", "9">>
RevToken(g) == Str(<<Digits[g]>>)

Absent == [status |-> "absent", gen |-> 0, body |-> EmptyDoc]

\* the characters of s before its first ":" (the partition of a document id)
PartitionOf(s) ==
  LET colons == {i \in 1..Len(s) : s[i] = ":"} IN
    IF colons = {} THEN s
    ELSE SubSeq(s, 1, (CHOOSE i \in colons : \A j \in colons : i <= j) - 1)

WithoutRev(d) == [k \in DOMAIN d \ {"_rev"} |-> d[k]]

\* db.insert(doc): [err, rev, store]
StoreInsert(st, d) ==
  LET body == Serialize(d)
      id   == Get(body, "_id").s
      rev  == Get(body, "_rev")
      cur  == st[id]
      fits == \/ cur.status = "live" /\ rev = RevToken(cur.gen)
              \/ cur.status = "absent" /\ rev.t = "undefined"
              \/ cur.status = "deleted" /\ (rev.t = "undefined" \/ rev = RevToken(cur.gen))
  IN IF ~fits
     THEN [err |-> StoreError(409), rev |-> Undefined, store |-> st]
     ELSE [err |-> NoErr, rev |-> RevToken(cur.gen + 1),
           store |-> [st EXCEPT ![id] = [status |-> "live", gen |-> cur.gen + 1,
                                         body |-> WithoutRev(body)]]]

\* db.get(_id): [err, doc]
StoreGet(st, id) ==
  IF id \in DOMAIN st /\ st[id].status = "live"
  THEN [err |-> NoErr, doc |-> Obj(("_rev" :> RevToken(st[id].gen)) @@ st[id].body)]
  ELSE [err |-> StoreError(404), doc |-> Undefined]

\* db.destroy(_id, _rev): [err, ack, store]
StoreDestroy(st, id, rev) ==
  IF ~(id \in DOMAIN st /\ st[id].status = "live")
  THEN [err |-> StoreError(404), ack |-> Undefined, store |-> st]
  ELSE IF rev # RevToken(st[id].gen)
  THEN [err |-> StoreError(409), ack |-> Undefined, store |-> st]
  ELSE [err |-> NoErr,
        ack |-> Obj(("ok" :> Bool(TRUE)) @@ ("id" :> Str(id))
                    @@ ("rev" :> RevToken(st[id].gen + 1))),
        store |-> [st EXCEPT ![id] = [status |-> "deleted", gen |-> st[id].gen + 1,
                                      body |-> EmptyDoc]]]

\* no document of st is past the last generation the model follows
GenOK(st) == \A id \in DOMAIN st : st[id].gen <= MaxRev

----------------------------------------------------------------------------
(* Views.  The design document of the accessor's type holds the view        *)
(* 'by-name': map = ({_id, name}) => _id.split(':')[0] === TYPE && name &&  *)
(* emit([name], 1), reduce = '_count'.                                      *)

ByName == <<"b", "y", "-", "n", "a", "m", "e">>
Views == {ByName}

\* the values a document's name takes, in view collation order
Names == <<Str(<<"p">>), Str(<<"q">>)>>

\* the types a design document is deployed for
Types == {<<"W">>, <<".">>}

\* every document id of the model, in collation order
SortedIds ==
  << <<".", ":", "a">>, <<".", ":", "b">>, <<".", ":", "k">>,
     <<"W", ":", "a">>, <<"W", ":", "b">>, <<"W", ":", "k">>,
     <<"X", ":", "a">> >>

AllIds == {SortedIds[i] : i \in 1..Len(SortedIds)}

NoKey == [present |-> FALSE, comps |-> <<>>]
Key(comps) == [present |-> TRUE, comps |-> comps]

\* the rows the map function emits with key [nv], ordered by document id
RowsFor(st, partition, ddoc, nv) ==
  LET ids == SelectSeq(SortedIds, LAMBDA id :
               /\ st[id].status = "live"
               /\ PartitionOf(id) = partition
               /\ PartitionOf(id) = ddoc
               /\ Truthy(Get(st[id].body, "name"))
               /\ Get(st[id].body, "name") = nv)
  IN [i \in 1..Len(ids) |->
        [id |-> Str(ids[i]), key |-> <<nv>>, value |-> Num(1), doc |-> Undefined]]

RECURSIVE MapRows(_, _, _, _)
MapRows(st, partition, ddoc, i) ==
  IF i > Len(Names) THEN <<>>
  ELSE RowsFor(st, partition, ddoc, Names[i]) \o MapRows(st, partition, ddoc, i + 1)

Page(rows, o) ==
  LET skip    == IF Get(o, "skip").t = "number" THEN Get(o, "skip").n ELSE 0
      skipped == SubSeq(rows, skip + 1, Len(rows))
      limit   == IF Get(o, "limit").t = "number" THEN Get(o, "limit").n ELSE Len(skipped)
  IN SubSeq(skipped, 1, IF limit < Len(skipped) THEN limit ELSE Len(skipped))

\* db.partitionedView(partition, ddoc, view, opts): [err, rows]
StoreView(st, partition, ddoc, view, opts, key) ==
  LET o        == Serialize(opts)
      reduce   == IF "reduce" \in DOMAIN o THEN Truthy(o["reduce"]) ELSE TRUE
      incl     == Truthy(Get(o, "include_docs"))
      all      == MapRows(st, partition, ddoc, 1)
      matching == IF key.present
                  THEN SelectSeq(all, LAMBDA r : r.key = key.comps)
                  ELSE all
      reduced  == IF Len(matching) = 0 THEN <<>>
                  ELSE <<[id |-> Null, key |-> <<>>, value |-> Num(Len(matching)),
                          doc |-> Undefined]>>
      page     == Page(IF reduce THEN reduced ELSE matching, o)
  IN IF ~(ddoc \in Types /\ view \in Views)
     THEN [err |-> StoreError(404), rows |-> <<>>]
     ELSE IF reduce /\ incl
     THEN [err |-> StoreError(400), rows |-> <<>>]
     ELSE [err |-> NoErr,
           rows |-> [i \in 1..Len(page) |->
                      IF incl
                      THEN [page[i] EXCEPT !.doc = StoreGet(st, page[i].id.s).doc]
                      ELSE page[i]]]

----------------------------------------------------------------------------
(* this.db as the accessor sees it: the store, or a failure of the client   *)
(* (network, authorisation) that leaves the store alone.  fault = 0 means   *)
(* the request reaches the store.                                           *)

Faults == {0, 500}

dbInsert(st, d, fault) ==
  IF fault # 0 THEN [err |-> StoreError(fault), rev |-> Undefined, store |-> st]
  ELSE StoreInsert(st, d)

dbGet(st, id, fault) ==
  IF fault # 0 THEN [err |-> StoreError(fault), doc |-> Undefined]
  ELSE StoreGet(st, id)

dbDestroy(st, id, rev, fault) ==
  IF fault # 0 THEN [err |-> StoreError(fault), ack |-> Undefined, store |-> st]
  ELSE StoreDestroy(st, id, rev)

dbView(st, partition, ddoc, view, opts, key, fault) ==
  IF fault # 0 THEN [err |-> StoreError(fault), rows |-> <<>>]
  ELSE StoreView(st, partition, ddoc, view, opts, key)

\* one entry of the log of calls made on this.db
StoreCall(fn, id, rev, d, partition, ddoc, view, opts, key) ==
  [fn |-> fn, id |-> id, rev |-> rev, doc |-> d, partition |-> partition,
   ddoc |-> ddoc, view |-> view, opts |-> opts, key |-> key]

InsertCall(d) ==
  StoreCall("insert", Get(d, "_id").s, Undefined, d, <<>>, <<>>, <<>>, EmptyDoc, NoKey)
GetCall(id) ==
  StoreCall("get", id, Undefined, EmptyDoc, <<>>, <<>>, <<>>, EmptyDoc, NoKey)
DestroyCall(id, rev) ==
  StoreCall("destroy", id, rev, EmptyDoc, <<>>, <<>>, <<>>, EmptyDoc, NoKey)
ViewCall(partition, ddoc, view, opts, key) ==
  StoreCall("partitionedView", <<>>, Undefined, EmptyDoc, partition, ddoc, view, opts, key)

----------------------------------------------------------------------------
(* How a call settles *)

NoRet == [status |-> "none", value |-> Undefined, list |-> <<>>]

\* an assertion (or a TypeError) before this.db was touched
Thrown(e, st) ==
  [err |-> e, ret |-> [status |-> "rejected", value |-> Undefined, list |-> <<>>],
   storeCalls |-> <<>>, storeErr |-> NoErr, store |-> st]

\* rejected after the store call `c`, which the store answered with `se`
Rejected(e, c, se, st) ==
  [err |-> e, ret |-> [status |-> "rejected", value |-> Undefined, list |-> <<>>],
   storeCalls |-> <<c>>, storeErr |-> se, store |-> st]

\* resolved with value v (and, for an array, its elements l)
Resolved(v, l, c, se, st) ==
  [err |-> NoErr, ret |-> [status |-> "resolved", value |-> v, list |-> l],
   storeCalls |-> <<c>>, storeErr |-> se, store |-> st]

\* typeof id === 'string' && id   /   typeof viewName === 'string' && viewName
NonEmptyStr(v) == TypeOf(v) = "string" /\ Truthy(v)

----------------------------------------------------------------------------
(* The DAO operations.  Each takes this.type, the store, the arguments and  *)
(* the fault the store call meets, and yields how the call settles and the  *)
(* store it leaves.                                                         *)

\* Variants of the operations, each with one plausible slip; the properties
\* below are checked against them as well, and must tell them apart.

\* create without the `_rev` assertion
create_NoRevCheck(ty, st, doc, fault) ==
  LET vr == validate(ty, doc) IN
  IF vr.threw # NoErr THEN Thrown(vr.threw, st)
  ELSE IF ~vr.valid THEN Thrown(AssertionError("invalid document"), st)
  ELSE LET res == dbInsert(st, doc.o, fault) IN
    IF res.err # NoErr
    THEN Rejected(res.err, InsertCall(doc.o), res.err, res.store)
    ELSE Resolved(Obj(doc.o @@ ("_rev" :> res.rev)), <<>>,
                  InsertCall(doc.o), NoErr, res.store)

\* retrieve without the try/catch: return this.db.get(_id)
retrieve_NoCatch(ty, st, id, fault) ==
  IF ~NonEmptyStr(id) THEN Thrown(AssertionError("bad document id"), st)
  ELSE LET _id == Qualify(ty, id.s)
           res == dbGet(st, _id, fault) IN
    IF res.err = NoErr THEN Resolved(res.doc, <<>>, GetCall(_id), NoErr, st)
    ELSE Rejected(res.err, GetCall(_id), res.err, st)

\* retrieve whose catch returns null for every error
retrieve_CatchAll(ty, st, id, fault) ==
  IF ~NonEmptyStr(id) THEN Thrown(AssertionError("bad document id"), st)
  ELSE LET _id == Qualify(ty, id.s)
           res == dbGet(st, _id, fault) IN
    IF res.err = NoErr THEN Resolved(res.doc, <<>>, GetCall(_id), NoErr, st)
    ELSE Resolved(Null, <<>>, GetCall(_id), res.err, st)

\* update that asserts the id match only after the insert
update_LateMismatch(ty, st, id, doc, fault) ==
  IF ~NonEmptyStr(id) THEN Thrown(AssertionError("bad document id"), st)
  ELSE LET vr == validate(ty, doc) IN
  IF vr.threw # NoErr THEN Thrown(vr.threw, st)
  ELSE IF ~vr.valid THEN Thrown(AssertionError("invalid document"), st)
  ELSE IF ~Truthy(Get(doc.o, "_rev"))
  THEN Thrown(AssertionError("document must already exist"), st)
  ELSE LET res == dbInsert(st, doc.o, fault) IN
    IF res.err # NoErr
    THEN Rejected(res.err, InsertCall(doc.o), res.err, res.store)
    ELSE IF Get(doc.o, "_id") # Str(Qualify(ty, id.s))
    THEN Rejected(AssertionError("document id mismatch"), InsertCall(doc.o), NoErr,
                  res.store)
    ELSE Resolved(Obj(("_rev" :> res.rev) @@ doc.o), <<>>,
                  InsertCall(doc.o), NoErr, res.store)

\* update with the `_rev` assertion ahead of the id match
update_RevBeforeMismatch(ty, st, id, doc, fault) ==
  IF ~NonEmptyStr(id) THEN Thrown(AssertionError("bad document id"), st)
  ELSE LET vr == validate(ty, doc) IN
  IF vr.threw # NoErr THEN Thrown(vr.threw, st)
  ELSE IF ~vr.valid THEN Thrown(AssertionError("invalid document"), st)
  ELSE IF ~Truthy(Get(doc.o, "_rev"))
  THEN Thrown(AssertionError("document must already exist"), st)
  ELSE IF Get(doc.o, "_id") # Str(Qualify(ty, id.s))
  THEN Thrown(AssertionError("document id mismatch"), st)
  ELSE LET res == dbInsert(st, doc.o, fault) IN
    IF res.err # NoErr
    THEN Rejected(res.err, InsertCall(doc.o), res.err, res.store)
    ELSE Resolved(Obj(("_rev" :> res.rev) @@ doc.o), <<>>,
                  InsertCall(doc.o), NoErr, res.store)

\* update that merges as create does: { _rev: res.rev, ...doc }
update_CreateSpread(ty, st, id, doc, fault) ==
  IF ~NonEmptyStr(id) THEN Thrown(AssertionError("bad document id"), st)
  ELSE LET vr == validate(ty, doc) IN
  IF vr.threw # NoErr THEN Thrown(vr.threw, st)
  ELSE IF ~vr.valid THEN Thrown(AssertionError("invalid document"), st)
  ELSE IF Get(doc.o, "_id") # Str(Qualify(ty, id.s))
  THEN Thrown(AssertionError("document id mismatch"), st)
  ELSE IF ~Truthy(Get(doc.o, "_rev"))
  THEN Thrown(AssertionError("document must already exist"), st)
  ELSE LET res == dbInsert(st, doc.o, fault) IN
    IF res.err # NoErr
    THEN Rejected(res.err, InsertCall(doc.o), res.err, res.store)
    ELSE Resolved(Obj(doc.o @@ ("_rev" :> res.rev)), <<>>,
                  InsertCall(doc.o), NoErr, res.store)

\* delete without the `_rev` assertion
delete_NoRevCheck(ty, st, id, doc, fault) ==
  IF ~NonEmptyStr(id) THEN Thrown(AssertionError("bad document id"), st)
  ELSE IF TypeOf(doc) # "object" THEN Thrown(AssertionError("bad document"), st)
  ELSE IF doc.t = "null" THEN Thrown(TypeError, st)
  ELSE IF ~NonEmptyStr(Get(doc.o, "_id"))
  THEN Thrown(AssertionError("invalid document"), st)
  ELSE IF Get(doc.o, "_id") # Str(Qualify(ty, id.s))
  THEN Thrown(AssertionError("document id mismatch"), st)
  ELSE LET c   == DestroyCall(Get(doc.o, "_id").s, Get(doc.o, "_rev"))
           res == dbDestroy(st, c.id, c.rev, fault) IN
    IF res.err # NoErr THEN Rejected(res.err, c, res.err, res.store)
    ELSE Resolved(res.ack, <<>>, c, NoErr, res.store)

\* delete that resolves to the document instead of the store's answer
delete_ReturnsDoc(ty, st, id, doc, fault) ==
  IF ~NonEmptyStr(id) THEN Thrown(AssertionError("bad document id"), st)
  ELSE IF TypeOf(doc) # "object" THEN Thrown(AssertionError("bad document"), st)
  ELSE IF doc.t = "null" THEN Thrown(TypeError, st)
  ELSE IF ~NonEmptyStr(Get(doc.o, "_id"))
  THEN Thrown(AssertionError("invalid document"), st)
  ELSE IF Get(doc.o, "_id") # Str(Qualify(ty, id.s))
  THEN Thrown(AssertionError("document id mismatch"), st)
  ELSE IF ~Truthy(Get(doc.o, "_rev"))
  THEN Thrown(AssertionError("document must already exist"), st)
  ELSE LET c   == DestroyCall(Get(doc.o, "_id").s, Get(doc.o, "_rev"))
           res == dbDestroy(st, c.id, c.rev, fault) IN
    IF res.err # NoErr THEN Rejected(res.err, c, res.err, res.store)
    ELSE Resolved(doc, <<>>, c, NoErr, res.store)

\* findOne that asks the store for one row only
findOne_LimitOne(ty, st, viewName, key, fault) ==
  IF ~NonEmptyStr(viewName) THEN Thrown(AssertionError("invalid view"), st)
  ELSE IF ~(Len(key) > 0) THEN Thrown(AssertionError("invalid key"), st)
  ELSE LET o   == ("reduce" :> Bool(FALSE)) @@ ("include_docs" :> Bool(TRUE))
                  @@ ("limit" :> Num(1))
           c   == ViewCall(ty, ty, viewName.s, o, Key(key))
           res == dbView(st, ty, ty, viewName.s, o, Key(key), fault) IN
    IF res.err # NoErr THEN Rejected(res.err, c, res.err, st)
    ELSE IF ~(Len(res.rows) <= 1)
    THEN Rejected(AssertionError("key is not unique"), c, NoErr, st)
    ELSE Resolved(IF Len(res.rows) # 0 THEN res.rows[1].doc ELSE Null, <<>>, c, NoErr, st)

\* exists that shares findOne's query and uniqueness assertion
exists_Unique(ty, st, viewName, key, fault) ==
  IF ~NonEmptyStr(viewName) THEN Thrown(AssertionError("invalid view"), st)
  ELSE IF ~(Len(key) > 0) THEN Thrown(AssertionError("invalid key"), st)
  ELSE LET o   == ("reduce" :> Bool(FALSE)) @@ ("include_docs" :> Bool(FALSE))
                  @@ ("limit" :> Num(2))
           c   == ViewCall(ty, ty, viewName.s, o, Key(key))
           res == dbView(st, ty, ty, viewName.s, o, Key(key), fault) IN
    IF res.err # NoErr THEN Rejected(res.err, c, res.err, st)
    ELSE IF ~(Len(res.rows) <= 1)
    THEN Rejected(AssertionError("key is not unique"), c, NoErr, st)
    ELSE Resolved(Bool(Len(res.rows) # 0), <<>>, c, NoErr, st)

\* count that always sends the key, also when it is empty
count_AlwaysKey(ty, st, viewName, key, fault) ==
  IF ~NonEmptyStr(viewName) THEN Thrown(AssertionError("invalid view"), st)
  ELSE LET o   == "reduce" :> Bool(TRUE)
           k   == Key(key)
           c   == ViewCall(ty, ty, viewName.s, o, k)
           res == dbView(st, ty, ty, viewName.s, o, k, fault) IN
    IF res.err # NoErr THEN Rejected(res.err, c, res.err, st)
    ELSE Resolved(IF Len(res.rows) # 0 THEN res.rows[1].value ELSE Num(0), <<>>,
                  c, NoErr, st)

\* list whose defaults win over the caller: { ...opts, reduce: false, include_docs: true }
list_DefaultsWin(ty, st, viewName, opts, fault) ==
  LET given == IF opts.t = "undefined" THEN Obj(EmptyDoc) ELSE opts IN
  IF ~NonEmptyStr(viewName) THEN Thrown(AssertionError("invalid view"), st)
  ELSE IF TypeOf(given) # "object" THEN Thrown(AssertionError("invalid options"), st)
  ELSE LET o   == ("reduce" :> Bool(FALSE)) @@ ("include_docs" :> Bool(TRUE)) @@ given.o
           c   == ViewCall(ty, ty, viewName.s, o, NoKey)
           res == dbView(st, ty, ty, viewName.s, o, NoKey, fault) IN
    IF res.err # NoErr THEN Rejected(res.err, c, res.err, st)
    ELSE Resolved(Arr,
                  [i \in 1..Len(res.rows) |->
                     IF Truthy(Get(o, "include_docs")) THEN res.rows[i].doc
                     ELSE res.rows[i].value],
                  c, NoErr, st)

\* list that maps every row to row.doc
list_AlwaysDoc(ty, st, viewName, opts, fault) ==
  LET given == IF opts.t = "undefined" THEN Obj(EmptyDoc) ELSE opts IN
  IF ~NonEmptyStr(viewName) THEN Thrown(AssertionError("invalid view"), st)
  ELSE IF TypeOf(given) # "object" THEN Thrown(AssertionError("invalid options"), st)
  ELSE LET o   == given.o @@ ("reduce" :> Bool(FALSE)) @@ ("include_docs" :> Bool(TRUE))
           c   == ViewCall(ty, ty, viewName.s, o, NoKey)
           res == dbView(st, ty, ty, viewName.s, o, NoKey, fault) IN
    IF res.err # NoErr THEN Rejected(res.err, c, res.err, st)
    ELSE Resolved(Arr, [i \in 1..Len(res.rows) |-> res.rows[i].doc], c, NoErr, st)

\* update that, on a conflict, reads the current revision and inserts again
update_RetryOnConflict(ty, st, id, doc, fault) ==
  IF ~NonEmptyStr(id) THEN Thrown(AssertionError("bad document id"), st)
  ELSE LET vr == validate(ty, doc) IN
  IF vr.threw # NoErr THEN Thrown(vr.threw, st)
  ELSE IF ~vr.valid THEN Thrown(AssertionError("invalid document"), st)
  ELSE IF Get(doc.o, "_id") # Str(Qualify(ty, id.s))
  THEN Thrown(AssertionError("document id mismatch"), st)
  ELSE IF ~Truthy(Get(doc.o, "_rev"))
  THEN Thrown(AssertionError("document must already exist"), st)
  ELSE LET res == dbInsert(st, doc.o, fault)
           cur == dbGet(st, Qualify(ty, id.s), fault) IN
    IF res.err = StoreError(409) /\ cur.err = NoErr
    THEN LET again == ("_rev" :> Get(cur.doc.o, "_rev")) @@ doc.o
             res2  == dbInsert(st, again, fault) IN
         [err |-> res2.err,
          ret |-> [status |-> IF res2.err = NoErr THEN "resolved" ELSE "rejected",
                   value |-> IF res2.err = NoErr
                             THEN Obj(("_rev" :> res2.rev) @@ doc.o) ELSE Undefined,
                   list |-> <<>>],
          storeCalls |-> <<InsertCall(doc.o), GetCall(Qualify(ty, id.s)), InsertCall(again)>>,
          storeErr |-> res2.err, store |-> res2.store]
    ELSE IF res.err # NoErr
    THEN Rejected(res.err, InsertCall(doc.o), res.err, res.store)
    ELSE Resolved(Obj(("_rev" :> res.rev) @@ doc.o), <<>>,
                  InsertCall(doc.o), NoErr, res.store)

\* async create(doc)
create(ty, st, doc, fault) ==
  LET vr == validate(ty, doc) IN
  IF vr.threw # NoErr THEN Thrown(vr.threw, st)
  ELSE IF ~vr.valid THEN Thrown(AssertionError("invalid document"), st)
  ELSE IF Truthy(Get(doc.o, "_rev"))
  THEN Thrown(AssertionError("document may already exist"), st)
  ELSE LET res == dbInsert(st, doc.o, fault) IN
    IF res.err # NoErr
    THEN Rejected(res.err, InsertCall(doc.o), res.err, res.store)
    \* { _rev: res.rev, ...doc }: the properties of doc are written last
    ELSE Resolved(Obj(doc.o @@ ("_rev" :> res.rev)), <<>>,
                  InsertCall(doc.o), NoErr, res.store)

\* async retrieve(id)
retrieve(ty, st, id, fault) ==
  IF ~NonEmptyStr(id) THEN Thrown(AssertionError("bad document id"), st)
  ELSE LET _id == Qualify(ty, id.s)
           res == dbGet(st, _id, fault) IN
    IF res.err = NoErr THEN Resolved(res.doc, <<>>, GetCall(_id), NoErr, st)
    ELSE IF res.err.statusCode # 404 THEN Rejected(res.err, GetCall(_id), res.err, st)
    ELSE Resolved(Null, <<>>, GetCall(_id), res.err, st)

\* async update(id, doc)
update(ty, st, id, doc, fault) ==
  IF ~NonEmptyStr(id) THEN Thrown(AssertionError("bad document id"), st)
  ELSE LET vr == validate(ty, doc) IN
  IF vr.threw # NoErr THEN Thrown(vr.threw, st)
  ELSE IF ~vr.valid THEN Thrown(AssertionError("invalid document"), st)
  ELSE IF Get(doc.o, "_id") # Str(Qualify(ty, id.s))
  THEN Thrown(AssertionError("document id mismatch"), st)
  ELSE IF ~Truthy(Get(doc.o, "_rev"))
  THEN Thrown(AssertionError("document must already exist"), st)
  ELSE LET res == dbInsert(st, doc.o, fault) IN
    IF res.err # NoErr
    THEN Rejected(res.err, InsertCall(doc.o), res.err, res.store)
    \* { ...doc, _rev: res.rev }
    ELSE Resolved(Obj(("_rev" :> res.rev) @@ doc.o), <<>>,
                  InsertCall(doc.o), NoErr, res.store)

\* async delete(id, doc)
delete(ty, st, id, doc, fault) ==
  IF ~NonEmptyStr(id) THEN Thrown(AssertionError("bad document id"), st)
  ELSE IF TypeOf(doc) # "object" THEN Thrown(AssertionError("bad document"), st)
  ELSE IF doc.t = "null" THEN Thrown(TypeError, st)      \* doc._id of null
  ELSE IF ~NonEmptyStr(Get(doc.o, "_id"))
  THEN Thrown(AssertionError("invalid document"), st)
  ELSE IF Get(doc.o, "_id") # Str(Qualify(ty, id.s))
  THEN Thrown(AssertionError("document id mismatch"), st)
  ELSE IF ~Truthy(Get(doc.o, "_rev"))
  THEN Thrown(AssertionError("document must already exist"), st)
  ELSE LET c   == DestroyCall(Get(doc.o, "_id").s, Get(doc.o, "_rev"))
           res == dbDestroy(st, c.id, c.rev, fault) IN
    IF res.err # NoErr THEN Rejected(res.err, c, res.err, res.store)
    ELSE Resolved(res.ack, <<>>, c, NoErr, res.store)

\* async list(viewName, opts = {})
list(ty, st, viewName, opts, fault) ==
  LET given == IF opts.t = "undefined" THEN Obj(EmptyDoc) ELSE opts IN
  IF ~NonEmptyStr(viewName) THEN Thrown(AssertionError("invalid view"), st)
  ELSE IF TypeOf(given) # "object" THEN Thrown(AssertionError("invalid options"), st)
  ELSE LET \* { reduce: false, include_docs: true, ...opts }
           o   == given.o @@ ("reduce" :> Bool(FALSE)) @@ ("include_docs" :> Bool(TRUE))
           c   == ViewCall(ty, ty, viewName.s, o, NoKey)
           res == dbView(st, ty, ty, viewName.s, o, NoKey, fault) IN
    IF res.err # NoErr THEN Rejected(res.err, c, res.err, st)
    ELSE Resolved(Arr,
                  [i \in 1..Len(res.rows) |->
                     IF Truthy(Get(o, "include_docs")) THEN res.rows[i].doc
                     ELSE res.rows[i].value],
                  c, NoErr, st)

\* async findOne(viewName, ...key)
findOne(ty, st, viewName, key, fault) ==
  IF ~NonEmptyStr(viewName) THEN Thrown(AssertionError("invalid view"), st)
  ELSE IF ~(Len(key) > 0) THEN Thrown(AssertionError("invalid key"), st)
  ELSE LET o   == ("reduce" :> Bool(FALSE)) @@ ("include_docs" :> Bool(TRUE))
                  @@ ("limit" :> Num(2))
           c   == ViewCall(ty, ty, viewName.s, o, Key(key))
           res == dbView(st, ty, ty, viewName.s, o, Key(key), fault) IN
    IF res.err # NoErr THEN Rejected(res.err, c, res.err, st)
    ELSE IF ~(Len(res.rows) <= 1)
    THEN Rejected(AssertionError("key is not unique"), c, NoErr, st)
    ELSE Resolved(IF Len(res.rows) # 0 THEN res.rows[1].doc ELSE Null, <<>>, c, NoErr, st)

\* async exists(viewName, ...key)
exists(ty, st, viewName, key, fault) ==
  IF ~NonEmptyStr(viewName) THEN Thrown(AssertionError("invalid view"), st)
  ELSE IF ~(Len(key) > 0) THEN Thrown(AssertionError("invalid key"), st)
  ELSE LET o   == ("reduce" :> Bool(FALSE)) @@ ("include_docs" :> Bool(FALSE))
                  @@ ("limit" :> Num(1))
           c   == ViewCall(ty, ty, viewName.s, o, Key(key))
           res == dbView(st, ty, ty, viewName.s, o, Key(key), fault) IN
    IF res.err # NoErr THEN Rejected(res.err, c, res.err, st)
    ELSE Resolved(Bool(Len(res.rows) # 0), <<>>, c, NoErr, st)

\* async count(viewName, ...key)
count(ty, st, viewName, key, fault) ==
  IF ~NonEmptyStr(viewName) THEN Thrown(AssertionError("invalid view"), st)
  ELSE LET o   == "reduce" :> Bool(TRUE)
           \* key: key.length ? key : undefined
           k   == IF Len(key) # 0 THEN Key(key) ELSE NoKey
           c   == ViewCall(ty, ty, viewName.s, o, k)
           res == dbView(st, ty, ty, viewName.s, o, k, fault) IN
    IF res.err # NoErr THEN Rejected(res.err, c, res.err, st)
    ELSE Resolved(IF Len(res.rows) # 0 THEN res.rows[1].value ELSE Num(0), <<>>,
                  c, NoErr, st)

----------------------------------------------------------------------------
(* The arguments callers pass *)

\* a property that is not written at all
Missing == [t |-> "missing", s |-> <<>>, n |-> 0, o |-> EmptyDoc]
Prop(k, v) == IF v.t = "missing" THEN EmptyDoc ELSE k :> v

\* the audit fields DAO.touch leaves on a document
Audit ==
  ("c_by" :> Str(<<"u">>)) @@ ("c_at" :> Num(1)) @@ ("m_by" :> Str(<<"u">>))
  @@ ("m_at" :> Num(1))

\* audit fields of which one is missing or of the wrong shape, or all missing
BadAudits ==
  { [k \in DOMAIN Audit \ {"c_by"} |-> Audit[k]],
    [Audit EXCEPT !["c_by"] = Str(<<>>)],
    [Audit EXCEPT !["c_at"] = Frac(1)],
    [k \in DOMAIN Audit \ {"c_at"} |-> Audit[k]],
    [Audit EXCEPT !["m_by"] = Null],
    [Audit EXCEPT !["m_at"] = Str(<<"1">>)],
    EmptyDoc }

OtherTypeId == <<"X", ":", "a">>

IdProps(ty) ==
  {Missing, Num(5), Str(OtherTypeId), Str(Qualify(ty, <<"a">>)), Str(Qualify(ty, <<"b">>))}

RevProps == {Missing, Undefined, Str(<<>>)} \cup {RevToken(g) : g \in 1..MaxRev}

NameProps == {Names[i] : i \in 1..Len(Names)}

\* documents with proper audit fields
Audited(ty) ==
  { Prop("_id", i) @@ Prop("_rev", r) @@ Prop("name", n) @@ Audit :
      i \in IdProps(ty), r \in RevProps, n \in NameProps }

\* documents whose audit fields are not proper
IllAudited(ty) ==
  { Prop("_id", i) @@ Prop("_rev", r) @@ a :
      i \in {Str(Qualify(ty, <<"a">>)), Str(OtherTypeId)},
      r \in {Missing, RevToken(1)}, a \in BadAudits } \cup {EmptyDoc}

\* what is passed as doc: objects, and a missing argument, a number, null
DocArgs(ty) ==
  {Obj(d) : d \in Audited(ty) \cup IllAudited(ty)} \cup {Undefined, Num(123), Null}

\* what is passed as id: local ids, and the empty string, a number, nothing
GoodIds == {Str(<<"a">>), Str(<<"b">>)}
BadIds == {Str(<<>>), Num(123), Undefined}
IdArgs == GoodIds \cup BadIds

\* what is passed as (id, doc): every document with a local id, and with an
\* id that is none a proper document, an empty one and no document
IdDocArgs(ty) ==
  (GoodIds \X DocArgs(ty))
  \cup (BadIds \X {Obj(Prop("_id", Str(Qualify(ty, <<"a">>))) @@ Prop("_rev", RevToken(1))
                        @@ Prop("name", Names[1]) @@ Audit),
                   Obj(EmptyDoc), Undefined})

\* what is passed as viewName: the view, a view the design document lacks,
\* the empty string, a number, nothing
ViewArgs == {Str(ByName), Str(<<"z">>), Str(<<>>), Num(123), Undefined}

\* what is passed as ...key
KeyArgs == {<<>>, <<Names[1]>>, <<Names[2]>>, <<Names[1], Names[2]>>}

\* what is passed as opts
OptsArgs ==
  {Undefined, Null, Num(123), Obj(EmptyDoc),
   Obj("include_docs" :> Bool(FALSE)), Obj("limit" :> Num(2)), Obj("skip" :> Num(1)),
   Obj("reduce" :> Bool(TRUE)),
   Obj(("reduce" :> Bool(TRUE)) @@ ("include_docs" :> Bool(FALSE)))}

----------------------------------------------------------------------------
(* State machine *)

NoCall == [op |-> "none", id |-> Undefined, doc |-> Undefined, view |-> Undefined,
           key |-> <<>>, opts |-> Undefined, fault |-> 0]

Call(op, id, doc, view, key, opts) ==
  [op |-> op, id |-> id, doc |-> doc, view |-> view, key |-> key, opts |-> opts,
   fault |-> 0]

\* the document the database is seeded with before the accessor is used
Seed(ty) ==
  [status |-> "live", gen |-> 1,
   body |-> ("_id" :> Str(Qualify(ty, <<"k">>))) @@ ("name" :> Names[1]) @@ Audit]

Init ==
  /\ type \in {<<"W">>}
  /\ store = [id \in AllIds |-> IF id = Qualify(type, <<"k">>) THEN Seed(type) ELSE Absent]
  /\ pc = "idle"
  /\ call = NoCall
  /\ ret = NoRet
  /\ err = NoErr
  /\ storeCalls = <<>>
  /\ storeErr = NoErr
  /\ storeBefore = store
  /\ dao = TRUE
  /\ now = 0
  /\ held = Undefined
  /\ touched = FALSE

\* the call c settles as `out`
Settle(c, fault, out) ==
  /\ pc = "idle"
  /\ GenOK(out.store)
  /\ pc' = "settled"
  /\ call' = [c EXCEPT !.fault = IF out.storeCalls = <<>> THEN 0 ELSE fault]
  /\ ret' = out.ret
  /\ err' = out.err
  /\ storeCalls' = out.storeCalls
  /\ storeErr' = out.storeErr
  /\ storeBefore' = store
  /\ store' = out.store
  /\ UNCHANGED <<type, dao, now, held, touched>>

Create ==
  \E doc \in DocArgs(type), fault \in Faults :
    Settle(Call("create", Undefined, doc, Undefined, <<>>, Undefined), fault,
           create(type, store, doc, fault))

Retrieve ==
  \E id \in IdArgs, fault \in Faults :
    Settle(Call("retrieve", id, Undefined, Undefined, <<>>, Undefined), fault,
           retrieve(type, store, id, fault))

Update ==
  \E a \in IdDocArgs(type), fault \in Faults :
    Settle(Call("update", a[1], a[2], Undefined, <<>>, Undefined), fault,
           update(type, store, a[1], a[2], fault))

Delete ==
  \E a \in IdDocArgs(type), fault \in Faults :
    Settle(Call("delete", a[1], a[2], Undefined, <<>>, Undefined), fault,
           delete(type, store, a[1], a[2], fault))

List ==
  \E v \in ViewArgs, opts \in OptsArgs, fault \in Faults :
    Settle(Call("list", Undefined, Undefined, v, <<>>, opts), fault,
           list(type, store, v, opts, fault))

FindOne ==
  \E v \in ViewArgs, key \in KeyArgs, fault \in Faults :
    Settle(Call("findOne", Undefined, Undefined, v, key, Undefined), fault,
           findOne(type, store, v, key, fault))

Exists ==
  \E v \in ViewArgs, key \in KeyArgs, fault \in Faults :
    Settle(Call("exists", Undefined, Undefined, v, key, Undefined), fault,
           exists(type, store, v, key, fault))

Count ==
  \E v \in ViewArgs, key \in KeyArgs, fault \in Faults :
    Settle(Call("count", Undefined, Undefined, v, key, Undefined), fault,
           count(type, store, v, key, fault))

\* the caller takes the settled promise's outcome and is free to call again
Return ==
  /\ pc = "settled"
  /\ pc' = "idle"
  /\ call' = NoCall
  /\ ret' = NoRet
  /\ err' = NoErr
  /\ storeCalls' = <<>>
  /\ storeErr' = NoErr
  /\ storeBefore' = store
  /\ UNCHANGED <<type, store, dao, now, held, touched>>

Next ==
  \/ Create
  \/ Retrieve
  \/ Update
  \/ Delete
  \/ List
  \/ FindOne
  \/ Exists
  \/ Count
  \/ Return

Spec == Init /\ [][Next]_vars

----------------------------------------------------------------------------
(* DAO.touch on a document the caller holds, under a running clock *)

\* what is passed as userName: two users, the empty string, a number, nothing
UserArgs == {Str(<<"u">>), Str(<<"v">>), Str(<<>>), Num(123), Undefined}

\* a document touched by 'admin' at second 0
ExistingDoc ==
  Obj(("c_by" :> Str(<<"a">>)) @@ ("c_at" :> Num(0)) @@ ("m_by" :> Str(<<"a">>))
      @@ ("m_at" :> Num(0)))

\* a document that was never touched: { _id: 'W:a', name: 'p' }
FreshDoc == Obj(("_id" :> Str(<<"W", ":", "a">>)) @@ ("name" :> Names[1]))

\* what the caller holds: nothing, a number, a string, null, {}, a document
\* that has audit fields, one that has none, and documents that have some:
\* the creator without the creation time, the creation time without the
\* creator, and a creator that is undefined
HeldDocs ==
  {Undefined, Num(123), Str(<<"x">>), Null, Obj(EmptyDoc), ExistingDoc, FreshDoc,
   Obj(("c_by" :> Str(<<"a">>)) @@ FreshDoc.o),
   Obj(("c_at" :> Num(0)) @@ FreshDoc.o),
   Obj(("c_by" :> Undefined) @@ FreshDoc.o)}

\* a synchronous call and its completion
SyncCall(op, doc, userName, typeArg, db) ==
  [op |-> op, doc |-> doc, user |-> userName, typeArg |-> typeArg, db |-> db,
   again |-> touched, fault |-> 0]
Returned(v) == [status |-> "returned", value |-> v, list |-> <<>>]
Threw == [status |-> "thrown", value |-> Undefined, list |-> <<>>]

InitTouch ==
  /\ type = <<"W">>
  /\ store = [id \in AllIds |-> Absent]
  /\ pc = "idle"
  /\ call = NoCall
  /\ ret = NoRet
  /\ err = NoErr
  /\ storeCalls = <<>>
  /\ storeErr = NoErr
  /\ storeBefore = store
  /\ dao = TRUE
  /\ now = 0
  /\ held \in HeldDocs
  /\ touched = FALSE

\* DAO.touch(held, userName); the clock may advance between its two readings
Touch ==
  \E userName \in UserArgs, adv \in {0, TickMs} :
    LET out == touch(held, userName, now, now + adv) IN
      /\ pc = "idle"
      /\ now + adv <= MaxClock
      /\ pc' = "settled"
      /\ call' = SyncCall("touch", held, userName, Undefined, Undefined)
      /\ err' = out.err
      /\ ret' = IF out.err = NoErr THEN Returned(out.doc) ELSE Threw
      /\ held' = out.doc
      /\ touched' = (touched \/ out.err = NoErr)
      /\ now' = IF out.err = NoErr THEN now + adv ELSE now
      /\ UNCHANGED <<type, store, storeCalls, storeErr, storeBefore, dao>>

\* this.validate(held)
ValidateHeld ==
  LET res == validate(type, held) IN
    /\ pc = "idle"
    /\ dao
    /\ pc' = "settled"
    /\ call' = SyncCall("validate", held, Undefined, Undefined, Undefined)
    /\ err' = res.threw
    /\ ret' = IF res.threw = NoErr
              THEN [status |-> "returned", value |-> Bool(res.valid), list |-> <<>>,
                    errors |-> res.errors]
              ELSE Threw
    /\ UNCHANGED <<type, store, storeCalls, storeErr, storeBefore, dao, now, held,
                   touched>>

\* time passes
Tick ==
  /\ pc = "idle"
  /\ now + TickMs <= MaxClock
  /\ now' = now + TickMs
  /\ UNCHANGED <<type, store, pc, call, ret, err, storeCalls, storeErr, storeBefore,
                 dao, held, touched>>

NextTouch ==
  \/ Touch
  \/ ValidateHeld
  \/ Tick
  \/ Return

SpecTouch == InitTouch /\ [][NextTouch]_vars

----------------------------------------------------------------------------
(* Constructing an accessor and validating documents with it *)

\* what is passed as type: nothing, a number, a plain name, and a name with
\* a character the /DocumentID pattern reads as a metacharacter
TypeArgs == {Undefined, Num(123), Str(<<"W">>), Str(<<".">>)}

\* what is passed as db: nothing, null, a number, an object without
\* `replicate`, one whose `replicate` is no function, a store client
DbArgs ==
  {Undefined, Null, Num(123), Obj(EmptyDoc), Obj("replicate" :> Str(<<"x">>)),
   Obj("replicate" :> Fn)}

\* what is passed to validate: every combination of each schema property
\* being absent, proper or improper, with and without a further property;
\* and nothing, a number, a string, null
ValidateArgs(ty) ==
  { Obj(Prop("_id", i) @@ Prop("_rev", r) @@ Prop("c_by", cb) @@ Prop("c_at", ca)
        @@ Prop("m_by", mb) @@ Prop("m_at", ma) @@ Prop("name", n)) :
      i  \in {Missing, Str(Qualify(ty, <<"a">>)), Str(OtherTypeId), Num(5)},
      r  \in {Missing, RevToken(1), Str(<<>>)},
      cb \in {Missing, Str(<<"u">>), Str(<<>>)},
      ca \in {Missing, Num(1), Frac(1)},
      mb \in {Missing, Str(<<"u">>), Null},
      ma \in {Missing, Num(1), Str(<<"1">>)},
      n  \in {Missing, Names[1]} }
  \cup {Undefined, Num(123), Str(<<"x">>), Null}

InitNew ==
  /\ type = <<>>
  /\ store = [id \in AllIds |-> Absent]
  /\ pc = "idle"
  /\ call = NoCall
  /\ ret = NoRet
  /\ err = NoErr
  /\ storeCalls = <<>>
  /\ storeErr = NoErr
  /\ storeBefore = store
  /\ dao = FALSE
  /\ now = 0
  /\ held = Undefined
  /\ touched = FALSE

\* new DAO(typeArg, db); the accessor replaces the one the caller had
Construct ==
  \E typeArg \in TypeArgs, db \in DbArgs :
    LET out == constructor(typeArg, db) IN
      /\ pc = "idle"
      /\ pc' = "settled"
      /\ call' = SyncCall("new", Undefined, Undefined, typeArg, db)
      /\ err' = out.err
      /\ ret' = IF out.err = NoErr THEN Returned(Undefined) ELSE Threw
      /\ dao' = (dao \/ out.err = NoErr)
      /\ type' = IF out.err = NoErr THEN out.type ELSE type
      /\ UNCHANGED <<store, storeCalls, storeErr, storeBefore, now, held, touched>>

\* this.validate(doc)
Validate ==
  \E doc \in ValidateArgs(type) :
    LET res == validate(type, doc) IN
      /\ pc = "idle"
      /\ dao
      /\ pc' = "settled"
      /\ call' = SyncCall("validate", doc, Undefined, Undefined, Undefined)
      /\ err' = res.threw
      /\ ret' = IF res.threw = NoErr
                THEN [status |-> "returned", value |-> Bool(res.valid), list |-> <<>>,
                      errors |-> res.errors]
                ELSE Threw
      /\ UNCHANGED <<type, store, storeCalls, storeErr, storeBefore, dao, now, held,
                     touched>>

NextNew ==
  \/ Construct
  \/ Validate
  \/ Return

SpecNew == InitNew /\ [][NextNew]_vars

----------------------------------------------------------------------------
(* An accessor whose type name holds a character that the /DocumentID       *)
(* pattern reads as a metacharacter: new DAO('.', db)                        *)

InitDot ==
  /\ type = <<".">>
  /\ store = [id \in AllIds |-> IF id = Qualify(type, <<"k">>) THEN Seed(type) ELSE Absent]
  /\ pc = "idle"
  /\ call = NoCall
  /\ ret = NoRet
  /\ err = NoErr
  /\ storeCalls = <<>>
  /\ storeErr = NoErr
  /\ storeBefore = store
  /\ dao = TRUE
  /\ now = 0
  /\ held = Undefined
  /\ touched = FALSE

SpecDot == InitDot /\ [][Next]_vars

----------------------------------------------------------------------------
(* Two callers using one accessor at the same time.  update and delete run  *)
(* their checks and issue their store call when called; the store serves    *)
(* the requests one at a time, in any order; each promise settles when its  *)
(* response arrives.  Here pc, call, ret, err and storeCalls hold one value  *)
(* per caller; ret and err of a served call are the response on its way.    *)

Callers == {1, 2}

RaceId == <<"k">>

\* what the callers pass as doc: the seeded document under either name, with
\* any revision or none
RaceDocs(ty) ==
  { Obj(Prop("_id", Str(Qualify(ty, RaceId))) @@ Prop("_rev", r) @@ Prop("name", n)
        @@ Audit) :
      r \in {Missing} \cup {RevToken(g) : g \in 1..MaxRev}, n \in NameProps }

\* the call cl run against store st
Outcome(cl, st, fault) ==
  IF cl.op = "update" THEN update(type, st, cl.id, cl.doc, fault)
  ELSE delete(type, st, cl.id, cl.doc, fault)

InitRace ==
  /\ type = <<"W">>
  /\ store = [id \in AllIds |-> IF id = Qualify(type, <<"k">>) THEN Seed(type) ELSE Absent]
  /\ pc = [c \in Callers |-> "idle"]
  /\ call = [c \in Callers |-> NoCall]
  /\ ret = [c \in Callers |-> NoRet]
  /\ err = [c \in Callers |-> NoErr]
  /\ storeCalls = [c \in Callers |-> <<>>]
  /\ storeErr = NoErr
  /\ storeBefore = store
  /\ dao = TRUE
  /\ now = 0
  /\ held = Undefined
  /\ touched = FALSE

\* caller c calls update or delete: the checks run, and the store call is
\* issued unless one of them fails
Issue(c) ==
  \E op \in {"update", "delete"}, doc \in RaceDocs(type) :
    LET cl  == Call(op, Str(RaceId), doc, Undefined, <<>>, Undefined)
        pre == Outcome(cl, store, 0) IN
      /\ pc[c] = "idle"
      /\ call' = [call EXCEPT ![c] = cl]
      /\ storeCalls' = [storeCalls EXCEPT ![c] = pre.storeCalls]
      /\ IF pre.storeCalls = <<>>
         THEN /\ pc' = [pc EXCEPT ![c] = "done"]
              /\ ret' = [ret EXCEPT ![c] = pre.ret]
              /\ err' = [err EXCEPT ![c] = pre.err]
         ELSE /\ pc' = [pc EXCEPT ![c] = "sent"]
              /\ UNCHANGED <<ret, err>>
      /\ UNCHANGED <<type, store, storeErr, storeBefore, dao, now, held, touched>>

\* the store serves the request of caller c
Serve(c) ==
  \E fault \in Faults :
    LET out == Outcome(call[c], store, fault) IN
      /\ pc[c] = "sent"
      /\ GenOK(out.store)
      /\ pc' = [pc EXCEPT ![c] = "served"]
      /\ call' = [call EXCEPT ![c].fault = fault]
      /\ storeCalls' = [storeCalls EXCEPT ![c] = out.storeCalls]
      /\ ret' = [ret EXCEPT ![c] = out.ret]
      /\ err' = [err EXCEPT ![c] = out.err]
      /\ store' = out.store
      /\ UNCHANGED <<type, storeErr, storeBefore, dao, now, held, touched>>

\* the response reaches caller c: its promise settles
Deliver(c) ==
  /\ pc[c] = "served"
  /\ pc' = [pc EXCEPT ![c] = "done"]
  /\ UNCHANGED <<type, store, call, ret, err, storeCalls, storeErr, storeBefore,
                 dao, now, held, touched>>

NextRace ==
  \/ \E c \in Callers : Issue(c)
  \/ \E c \in Callers : Serve(c)
  \/ \E c \in Callers : Deliver(c)

SpecRace == InitRace /\ [][NextRace]_vars

----------------------------------------------------------------------------
(* Properties *)

Settled(op) == pc = "settled" /\ call.op = op
Failed(kind) == ret.status = "rejected" /\ Kind(err) = kind
IsObject(v) == v.t = "object"
\* `type:id` of the settled call, for a well-formed id
QId == Qualify(type, call.id.s)
Mismatch == Get(call.doc.o, "_id") # Str(QId)

\* C1 (as claimed): create on any object document that has a `_rev` property
\* fails with AlreadyExists, whether or not the document is valid.
C1_AnyDocWithRev ==
  (Settled("create") /\ IsObject(call.doc) /\ "_rev" \in DOMAIN call.doc.o)
    => Failed("AlreadyExists")

\* C1 (amended): create on a document that passes validation and carries a
\* `_rev` (then a non-empty string) fails with AlreadyExists ('document may
\* already exist') without a store call; an object document that fails
\* validation fails with InvalidDocument, with or without a `_rev`.
C1_ValidDocWithRev ==
  /\ (Settled("create") /\ IsObject(call.doc) /\ validate(type, call.doc).valid
        /\ Truthy(Get(call.doc.o, "_rev")))
       => (Failed("AlreadyExists") /\ err.message = "document may already exist"
           /\ storeCalls = <<>>)
  /\ (Settled("create") /\ IsObject(call.doc) /\ ~validate(type, call.doc).valid)
       => Failed("InvalidDocument")

C1_Witness ==
  /\ Settled("create") /\ validate(type, call.doc).valid
  /\ Get(call.doc.o, "_rev") = RevToken(1)
  /\ Failed("AlreadyExists")

\* C2: a call that fails with InvalidArgument, InvalidDocument, AlreadyExists,
\* IdentityMismatch or PreconditionFailed has issued no store call and has
\* left the store as it was.
C2_ValidationBeforeStore ==
  (pc = "settled" /\ ret.status = "rejected"
     /\ Kind(err) \in {"InvalidArgument", "InvalidDocument", "AlreadyExists",
                       "IdentityMismatch", "PreconditionFailed"})
    => (storeCalls = <<>> /\ store = storeBefore)

\* an update without `_rev` of a document the store holds is turned down
\* before the store sees it
C2_Witness ==
  /\ Settled("update") /\ Failed("PreconditionFailed")
  /\ NonEmptyStr(call.id) /\ store[QId].status = "live"
  /\ storeCalls = <<>>

\* C3: retrieve of a well-formed id whose qualified id the store does not
\* hold (never created, or deleted) resolves to null when the store answers
\* the get; retrieve of a malformed id fails with InvalidArgument.
C3_RetrieveMissing ==
  /\ (Settled("retrieve") /\ NonEmptyStr(call.id) /\ call.fault = 0
        /\ storeBefore[QId].status # "live")
       => (ret.status = "resolved" /\ ret.value = Null /\ err = NoErr)
  /\ (Settled("retrieve") /\ ~NonEmptyStr(call.id))
       => (Failed("InvalidArgument") /\ err.message = "bad document id")

C3_Witness ==
  /\ Settled("retrieve") /\ NonEmptyStr(call.id)
  /\ storeBefore[QId].status = "deleted"
  /\ ret.status = "resolved" /\ ret.value = Null

\* C4: an error the store answers with reaches the caller as that same
\* error, except a 404 on retrieve, which becomes null; create of a document
\* whose _id the store holds fails with the store's 409 and leaves the stored
\* document as it was.
C4_StoreErrorsPassThrough ==
  /\ (pc = "settled" /\ storeErr # NoErr)
       => IF call.op = "retrieve" /\ storeErr.statusCode = 404
          THEN ret.status = "resolved" /\ ret.value = Null
          ELSE ret.status = "rejected" /\ err = storeErr
  /\ (pc = "settled" /\ ret.status = "rejected" /\ Kind(err) = "StoreError")
       => err = storeErr
  /\ (Settled("create") /\ IsObject(call.doc) /\ validate(type, call.doc).valid
        /\ ~Truthy(Get(call.doc.o, "_rev")) /\ call.fault = 0
        /\ storeBefore[Get(call.doc.o, "_id").s].status = "live")
       => (ret.status = "rejected" /\ err = StoreError(409) /\ store = storeBefore)

C4_Witness ==
  /\ Settled("create") /\ ret.status = "rejected" /\ err.statusCode = 409
  /\ storeBefore[Get(call.doc.o, "_id").s].status = "live"
  /\ store = storeBefore

\* C5 (as claimed): update and delete with a well-formed id and an object doc
\* whose _id differs from type:id fail with IdentityMismatch.
C5_AnyObjectMismatch ==
  (pc = "settled" /\ call.op \in {"update", "delete"} /\ NonEmptyStr(call.id)
     /\ IsObject(call.doc) /\ Mismatch)
    => Failed("IdentityMismatch")

\* C5 (amended): update with a well-formed id and a doc that passes
\* validation, and delete with a well-formed id and an object doc whose _id is
\* a non-empty string, fail with IdentityMismatch ('document id mismatch')
\* when doc._id differs from type:id, also when the doc has no `_rev`; a doc
\* that does not pass these document checks fails with InvalidDocument first.
C5_MismatchBeforeRev ==
  /\ (Settled("update") /\ NonEmptyStr(call.id) /\ IsObject(call.doc)
        /\ validate(type, call.doc).valid /\ Mismatch)
       => (Failed("IdentityMismatch") /\ err.message = "document id mismatch")
  /\ (Settled("delete") /\ NonEmptyStr(call.id) /\ IsObject(call.doc)
        /\ NonEmptyStr(Get(call.doc.o, "_id")) /\ Mismatch)
       => (Failed("IdentityMismatch") /\ err.message = "document id mismatch")
  /\ (Settled("update") /\ NonEmptyStr(call.id) /\ IsObject(call.doc)
        /\ ~validate(type, call.doc).valid)
       => Failed("InvalidDocument")
  /\ (Settled("delete") /\ NonEmptyStr(call.id) /\ IsObject(call.doc)
        /\ ~NonEmptyStr(Get(call.doc.o, "_id")))
       => Failed("InvalidDocument")

\* a doc that both mismatches and lacks `_rev`
C5_Witness ==
  /\ Settled("update") /\ NonEmptyStr(call.id) /\ validate(type, call.doc).valid
  /\ Mismatch /\ ~Truthy(Get(call.doc.o, "_rev"))
  /\ Failed("IdentityMismatch")

\* C6: update and delete with a well-formed id and a valid doc whose _id is
\* type:id but which has no `_rev` fail with PreconditionFailed; no update or
\* delete succeeds on a document the store never held.
C6_MissingRev ==
  /\ (pc = "settled" /\ call.op \in {"update", "delete"} /\ NonEmptyStr(call.id)
        /\ IsObject(call.doc) /\ validate(type, call.doc).valid /\ ~Mismatch
        /\ ~Truthy(Get(call.doc.o, "_rev")))
       => (Failed("PreconditionFailed")
           /\ err.message = "document must already exist")
  /\ (pc = "settled" /\ call.op \in {"update", "delete"} /\ ret.status = "resolved")
       => storeBefore[QId].gen > 0

C6_Witness ==
  /\ Settled("delete") /\ NonEmptyStr(call.id) /\ validate(type, call.doc).valid
  /\ ~Mismatch /\ "_rev" \notin DOMAIN call.doc.o
  /\ storeBefore[QId].status = "absent"
  /\ Failed("PreconditionFailed")

\* C7 (as claimed): a successful create returns a document with every field
\* of the input and with the `_rev` the store assigned; the store then holds
\* under doc._id a document with that `_rev` and the same fields, so that
\* retrieve of the local id returns create's result.
C7_CreateReturnsStored ==
  (Settled("create") /\ ret.status = "resolved")
    => LET d   == call.doc.o
           r   == ret.value.o
           _id == Get(d, "_id").s
       IN /\ \A k \in DOMAIN d \ {"_rev"} : k \in DOMAIN r /\ r[k] = d[k]
          /\ store[_id].status = "live"
          /\ Get(r, "_rev") = RevToken(store[_id].gen)
          /\ StoreGet(store, _id).doc = ret.value

\* C8: a successful update returns doc's fields with `_rev` replaced by the
\* revision the store assigned, which is not the supplied one; the store then
\* holds under type:id the updated fields with the returned `_rev`.
C8_UpdateReturnsNewRev ==
  (Settled("update") /\ ret.status = "resolved")
    => LET d == call.doc.o
           r == ret.value.o
       IN /\ DOMAIN r = DOMAIN d
          /\ \A k \in DOMAIN d \ {"_rev"} : r[k] = d[k]
          /\ d["_rev"] = RevToken(storeBefore[QId].gen)
          /\ r["_rev"] # d["_rev"]
          /\ store[QId].status = "live"
          /\ r["_rev"] = RevToken(store[QId].gen)
          /\ store[QId].body = WithoutRev(Serialize(d))
          /\ StoreGet(store, QId).doc = ret.value

\* the update changed the stored name
C8_Witness ==
  /\ Settled("update") /\ ret.status = "resolved"
  /\ Get(storeBefore[QId].body, "name") # Get(store[QId].body, "name")
  /\ Get(store[QId].body, "name") = Get(call.doc.o, "name")

\* C9: a successful delete has called destroy with the qualified id and the
\* revision of doc, and returns the store's answer, whose id is doc._id and
\* whose rev is not doc._rev; retrieve(id) then returns null.
C9_DeleteAcknowledged ==
  (Settled("delete") /\ ret.status = "resolved")
    => LET d == call.doc.o IN
          /\ storeCalls = <<DestroyCall(QId, d["_rev"])>>
          /\ d["_rev"] = RevToken(storeBefore[QId].gen)
          /\ ret.value = StoreDestroy(storeBefore, QId, d["_rev"]).ack
          /\ Get(ret.value.o, "id") = d["_id"]
          /\ Get(ret.value.o, "rev") # d["_rev"]
          /\ retrieve(type, store, call.id, 0).ret.status = "resolved"
          /\ retrieve(type, store, call.id, 0).ret.value = Null

C9_Witness ==
  /\ Settled("delete") /\ ret.status = "resolved"
  /\ storeBefore[QId].status = "live" /\ store[QId].status = "deleted"

\* the documents of the accessor's partition that 'by-name' lists under the
\* key of the settled call
Matching ==
  {id \in AllIds : /\ storeBefore[id].status = "live"
                   /\ PartitionOf(id) = type
                   /\ Truthy(Get(storeBefore[id].body, "name"))
                   /\ call.key = <<Get(storeBefore[id].body, "name")>>}

\* C10: findOne on the view with a non-empty key, answered by the store,
\* returns the document of the one row with that key, null when no row has it,
\* and fails with NotUnique when two or more rows have it.
C10_FindOne ==
  (Settled("findOne") /\ call.view = Str(ByName) /\ Len(call.key) > 0
     /\ call.fault = 0)
    => CASE Cardinality(Matching) = 0 ->
              ret.status = "resolved" /\ ret.value = Null
         [] Cardinality(Matching) = 1 ->
              /\ ret.status = "resolved"
              /\ \E id \in Matching : ret.value = StoreGet(storeBefore, id).doc
         [] OTHER ->
              /\ Failed("NotUnique") /\ err.message = "key is not unique"

\* three rows have the key, one more than the query's limit
C10_Witness ==
  /\ Settled("findOne") /\ call.fault = 0
  /\ Cardinality(Matching) = 3
  /\ Failed("NotUnique")

\* C11: exists on the view with a non-empty key, answered by the store,
\* resolves to true when at least one row has the key (also when several
\* have it: never NotUnique) and to false when none has it; it is false
\* exactly when findOne with the same view and key on the same store is null.
C11_Exists ==
  (Settled("exists") /\ call.view = Str(ByName) /\ Len(call.key) > 0
     /\ call.fault = 0)
    => LET f == findOne(type, storeBefore, call.view, call.key, 0) IN
       /\ ret.status = "resolved"
       /\ ret.value = Bool(Cardinality(Matching) > 0)
       /\ (ret.value = Bool(FALSE))
            <=> (f.ret.status = "resolved" /\ f.ret.value = Null)

\* several rows have the key
C11_Witness ==
  /\ Settled("exists") /\ call.fault = 0
  /\ Cardinality(Matching) >= 2
  /\ ret.status = "resolved" /\ ret.value = Bool(TRUE)

\* the documents of the accessor's partition that 'by-name' lists
Listed ==
  {id \in AllIds : /\ storeBefore[id].status = "live"
                   /\ PartitionOf(id) = type
                   /\ Truthy(Get(storeBefore[id].body, "name"))}

\* C12: count on the view, answered by the store, resolves to the number of
\* rows with the key, 0 when no row has it, and the number of all rows when no
\* key component is given; the key reaches the store only when at least one
\* component is given.
C12_Count ==
  (Settled("count") /\ call.view = Str(ByName) /\ call.fault = 0)
    => /\ ret.status = "resolved"
       /\ ret.value = Num(IF Len(call.key) = 0 THEN Cardinality(Listed)
                          ELSE Cardinality(Matching))
       /\ Len(storeCalls) = 1
       /\ Get(storeCalls[1].opts, "reduce") = Bool(TRUE)
       /\ storeCalls[1].key = IF Len(call.key) > 0 THEN Key(call.key) ELSE NoKey

\* no row has the key although the view has rows
C12_Witness ==
  /\ Settled("count") /\ call.view = Str(ByName) /\ call.fault = 0
  /\ Len(call.key) > 0 /\ Matching = {} /\ Cardinality(Listed) >= 2
  /\ ret.status = "resolved" /\ ret.value = Num(0)

\* the options the caller of list supplied
Supplied == IF call.opts.t = "undefined" THEN EmptyDoc ELSE call.opts.o

\* C13: list with a proper view name and options issues exactly one
\* partitioned view query, with the accessor's type as partition and as design
\* document, and with the caller's options over {reduce: false,
\* include_docs: true}: every caller option reaches the store unchanged.
C13_ListQuery ==
  (Settled("list") /\ NonEmptyStr(call.view)
     /\ (call.opts.t = "undefined" \/ TypeOf(call.opts) = "object"))
    => /\ Len(storeCalls) = 1
       /\ storeCalls[1].fn = "partitionedView"
       /\ storeCalls[1].partition = type
       /\ storeCalls[1].ddoc = type
       /\ storeCalls[1].view = call.view.s
       /\ DOMAIN storeCalls[1].opts = DOMAIN Supplied \cup {"reduce", "include_docs"}
       /\ \A k \in DOMAIN Supplied : storeCalls[1].opts[k] = Supplied[k]
       /\ "reduce" \notin DOMAIN Supplied
            => storeCalls[1].opts["reduce"] = Bool(FALSE)
       /\ "include_docs" \notin DOMAIN Supplied
            => storeCalls[1].opts["include_docs"] = Bool(TRUE)

\* the caller overrides both defaults
C13_Witness ==
  /\ Settled("list") /\ Len(storeCalls) = 1
  /\ Get(Supplied, "reduce") = Bool(TRUE)
  /\ Get(Supplied, "include_docs") = Bool(FALSE)
  /\ storeCalls[1].opts = Supplied

\* C14: list resolves to one element per row of the store's response, in the
\* order of the rows: the row's document when include_docs (true unless the
\* caller says otherwise) holds, else the row's value; without caller options
\* on include_docs every element is a stored document with a `_rev`.
C14_ListRows ==
  (Settled("list") /\ ret.status = "resolved")
    => LET c    == storeCalls[1]
           rows == StoreView(storeBefore, c.partition, c.ddoc, c.view, c.opts, c.key).rows
           incl == IF "include_docs" \in DOMAIN Supplied
                   THEN Truthy(Supplied["include_docs"]) ELSE TRUE
       IN /\ ret.value = Arr
          /\ Len(ret.list) = Len(rows)
          /\ \A i \in 1..Len(rows) :
               ret.list[i] = IF incl THEN rows[i].doc ELSE rows[i].value
          /\ "include_docs" \notin DOMAIN Supplied
               => \A i \in 1..Len(rows) :
                    /\ ret.list[i] = StoreGet(storeBefore, rows[i].id.s).doc
                    /\ Truthy(Get(ret.list[i].o, "_rev"))

\* rows are returned as their values
C14_Witness ==
  /\ Settled("list") /\ ret.status = "resolved"
  /\ Get(Supplied, "include_docs") = Bool(FALSE)
  /\ Len(ret.list) >= 2 /\ ret.list[1] = Num(1)

\* a step in which DAO.touch returns for the held document
TouchReturns ==
  /\ pc = "idle" /\ pc' = "settled"
  /\ call'.op = "touch" /\ err' = NoErr

\* C15: over the touch calls on one document, under a clock that never runs
\* backwards: once touch has returned for the document, no later call changes
\* `c_by` or `c_at`; every call sets `m_by` to the calling user, and `m_at`
\* to a timestamp not before the previous `m_at`.
C15_TouchSequence ==
  [][ TouchReturns =>
        /\ Get(held'.o, "m_by") = call'.user
        /\ touched =>
             /\ Get(held'.o, "c_by") = Get(held.o, "c_by")
             /\ Get(held'.o, "c_at") = Get(held.o, "c_at")
             /\ Get(held'.o, "m_at").t = "number"
             /\ Get(held'.o, "m_at").n >= Get(held.o, "m_at").n ]_vars

\* a later call by another user, in a later second, on a document that had
\* no audit fields at first
C15_Witness ==
  /\ Settled("touch") /\ err = NoErr /\ call.again
  /\ call.doc.o["c_by"] # call.user
  /\ held.o["c_by"] = call.doc.o["c_by"]
  /\ held.o["m_by"] = call.user
  /\ held.o["m_at"].n > call.doc.o["m_at"].n
  /\ Get(held.o, "c_at").n > 0

\* C16: the first touch of a document without audit fields stamps creation
\* and modification with one timestamp, the current epoch second, also when
\* the clock advances while touch runs.
C16_OneTimestamp ==
  (Settled("touch") /\ err = NoErr /\ call.doc = Obj(EmptyDoc))
    => /\ held.o["c_by"] = call.user /\ held.o["m_by"] = call.user
       /\ held.o["c_at"] = held.o["m_at"]
       /\ held.o["c_at"] = Num(EpochSeconds(now))

\* s starts with the characters `type:`
StartsWithType(s) ==
  LET pre == Qualify(type, <<>>) IN
    Len(s) >= Len(pre) /\ SubSeq(s, 1, Len(pre)) = pre

IsNonEmptyString(v) == v.t = "string" /\ v.s # <<>>
IsInteger(v) == v.t = "number" /\ v.s = <<>>

\* the fields of the validated document that are missing or incorrect
Wrong ==
  LET d == call.doc.o IN
       {f \in {"_id"} : ~("_id" \in DOMAIN d /\ d["_id"].t = "string"
                           /\ StartsWithType(d["_id"].s))}
  \cup {f \in {"_rev"} : "_rev" \in DOMAIN d /\ ~IsNonEmptyString(d["_rev"])}
  \cup {f \in {"c_by", "m_by"} : ~(f \in DOMAIN d /\ IsNonEmptyString(d[f]))}
  \cup {f \in {"c_at", "m_at"} : ~(f \in DOMAIN d /\ IsInteger(d[f]))}

\* C17: validate of an object returns exactly one error entry per missing or
\* incorrect field among `_id` (must start with `type:`), `_rev`, `c_by`,
\* `m_by`, `c_at`, `m_at`, is valid exactly when there is none, and is not
\* affected by other fields.
C17_OneErrorPerField ==
  (Settled("validate") /\ IsObject(call.doc))
    => /\ err = NoErr /\ ret.status = "returned"
       /\ ret.value = Bool(Wrong = {})
       /\ Cardinality(ret.errors) = Cardinality(Wrong)
       /\ \A f \in Wrong : Cardinality({e \in ret.errors : e[1] = f}) = 1

\* C18: validate and touch fail with 'bad document' for every doc that is no
\* object (nothing, a number, a string, null); touch fails with
\* InvalidArgument when userName is not a non-empty string; the document is
\* left as it was in each of these failures.
C18_NonObjectRejected ==
  (pc = "settled" /\ call.op \in {"validate", "touch"})
    => /\ ~IsObject(call.doc)
          => /\ ret.status = "thrown"
             /\ err = AssertionError("bad document")
             /\ held = call.doc
       /\ (call.op = "touch" /\ ~NonEmptyStr(call.user))
          => /\ ret.status = "thrown"
             /\ Kind(err) = "InvalidArgument"
             /\ held = call.doc

\* C19: the constructor fails with 'bad dao type name' when type is no
\* string, else with 'bad db type' when db is no object (missing and null
\* included), else with 'bad db instance' when db has no callable
\* `replicate`; otherwise it succeeds and the accessor has the given type.
C19_ConstructorChecks ==
  Settled("new")
    => IF TypeOf(call.typeArg) # "string"
       THEN ret.status = "thrown" /\ err = AssertionError("bad dao type name")
       ELSE IF ~IsObject(call.db)
       THEN ret.status = "thrown" /\ err = AssertionError("bad db type")
       ELSE IF Get(call.db.o, "replicate").t # "function"
       THEN ret.status = "thrown" /\ err = AssertionError("bad db instance")
       ELSE ret.status = "returned" /\ err = NoErr /\ dao /\ type = call.typeArg.s

\* C20: every document the accessor inserts has an `_id` starting with
\* `type:`, every get and destroy it issues targets such an id, every view
\* query it issues is scoped to partition `type`, and no document of another
\* type is ever written or deleted by it.
C20_TypePrefix ==
  /\ \A i \in 1..Len(storeCalls) :
       /\ storeCalls[i].fn \in {"insert", "get", "destroy"}
            => StartsWithType(storeCalls[i].id)
       /\ storeCalls[i].fn = "insert"
            => /\ Get(storeCalls[i].doc, "_id").t = "string"
               /\ StartsWithType(Get(storeCalls[i].doc, "_id").s)
       /\ storeCalls[i].fn = "partitionedView" => storeCalls[i].partition = type
  /\ \A id \in AllIds : ~StartsWithType(id) => store[id] = Absent

\* C23: delete applies the checks of update: for every (id, doc), delete is
\* rejected before its store call exactly when update is, and then with the
\* same error kind (a document without audit fields, or null, is treated
\* alike by both).
C23_DeleteChecksAsUpdate ==
  (pc = "settled" /\ call.op \in {"update", "delete"})
    => LET u == update(type, storeBefore, call.id, call.doc, 0)
           d == delete(type, storeBefore, call.id, call.doc, 0)
       IN /\ (d.storeCalls = <<>>) <=> (u.storeCalls = <<>>)
          /\ (d.storeCalls = <<>> /\ u.storeCalls = <<>>) => Kind(d.err) = Kind(u.err)

AuditFields == {"c_by", "c_at", "m_by", "m_at"}

\* audit field f of document d is present and valid
Stamped(d, f) ==
  /\ f \in DOMAIN d
  /\ IF f \in {"c_by", "m_by"} THEN IsNonEmptyString(d[f]) ELSE IsInteger(d[f])

\* touch has returned, and what it did to the document
TouchDone == Settled("touch") /\ err = NoErr /\ IsObject(call.doc)
FullyStamped ==
  /\ \A f \in AuditFields : Stamped(held.o, f)
  /\ {e \in validate(type, held).errors : e[1] \in AuditFields} = {}
SameDocument ==
  /\ ret.value = held
  /\ DOMAIN held.o = DOMAIN call.doc.o \cup AuditFields
  /\ \A k \in DOMAIN call.doc.o \ AuditFields : held.o[k] = call.doc.o[k]

\* C24 as stated: for every object doc whose audit fields are each absent or
\* valid, touch leaves all four present and valid, so that a doc whose `_id`
\* starts with `type:` passes validate and is accepted by create; touch returns
\* the same document and changes no other field.
C24_AlwaysFullyStamped ==
  (TouchDone /\ \A f \in AuditFields : f \notin DOMAIN call.doc.o \/ Stamped(call.doc.o, f))
    => /\ FullyStamped
       /\ SameDocument
       /\ (Get(held.o, "_id").t = "string" /\ StartsWithType(Get(held.o, "_id").s))
            => /\ validate(type, held).valid
               /\ create(type, store, held, 0).ret.status = "resolved"

\* C24, amended: for every object doc whose `c_by` is unset, or whose `c_by`
\* and `c_at` are both valid, touch leaves all four audit fields present and
\* valid, so that validate reports no error on them and the doc passes
\* validate, and create's checks, whenever its `_id` and `_rev` do; touch
\* returns the same document and changes no other field.
C24_StampedUnlessHalfCreated ==
  (TouchDone /\ (\/ TypeOf(Get(call.doc.o, "c_by")) = "undefined"
                 \/ Stamped(call.doc.o, "c_by") /\ Stamped(call.doc.o, "c_at")))
    => /\ FullyStamped
       /\ SameDocument
       /\ (/\ Get(held.o, "_id").t # "undefined"
           /\ DocumentID(type, Get(held.o, "_id")) = {}
           /\ NonEmptyString(Get(held.o, "_rev")) = {})
            => /\ validate(type, held).valid
               /\ ~Truthy(Get(held.o, "_rev"))
                    => create(type, store, held, 0).ret.status = "resolved"

\* a document without audit fields is touched and then passes validate and
\* create
C24_Witness ==
  /\ TouchDone /\ call.doc = FreshDoc
  /\ FullyStamped /\ SameDocument
  /\ validate(type, held).valid
  /\ create(type, store, held, 0).ret.status = "resolved"

\* both calls have settled, each was answered by the store, and both carried
\* the same `_rev` of the same document
Contended ==
  /\ \A c \in Callers : pc[c] = "done" /\ storeCalls[c] # <<>> /\ call[c].fault = 0
  /\ \A c, o \in Callers :
       /\ Get(call[c].doc.o, "_id") = Get(call[o].doc.o, "_id")
       /\ Get(call[c].doc.o, "_rev") = Get(call[o].doc.o, "_rev")

Won(c) == ret[c].status = "resolved"

\* what the store holds for the document once the call of c has been applied
Effect(c) ==
  LET before == storeBefore[Qualify(type, RaceId)] IN
    IF call[c].op = "update"
    THEN [status |-> "live", gen |-> before.gen + 1,
          body |-> WithoutRev(Serialize(call[c].doc.o))]
    ELSE [status |-> "deleted", gen |-> before.gen + 1, body |-> EmptyDoc]

\* one store call each, at most one winner, and the store holds the winner's
\* document (the document as it was, if nobody won)
OneWinner ==
  /\ \A c \in Callers : Len(storeCalls[c]) = 1
  /\ \A c, o \in Callers : (Won(c) /\ Won(o)) => c = o
  /\ \A c \in Callers : Won(c) => store[Qualify(type, RaceId)] = Effect(c)
  /\ (\A c \in Callers : ~Won(c)) => store = storeBefore
  /\ (\A c \in Callers : Get(call[c].doc.o, "_rev") = RevToken(1))
       => \E c \in Callers : Won(c)

====
